---- MODULE Spec2Model ----
(***************************************************************************)
(* Model of src/src/Bucket.ts (class Bucket of @rivo-gg/cloudflare-r2).    *)
(*                                                                         *)
(* One Bucket object, its private bucketPublicUrls array, and one caller   *)
(* that runs one asynchronous method at a time.  An asynchronous method is *)
(* split at its await: a Call action runs the code up to the await, a      *)
(* Settle action receives the transport's answer and runs the rest.        *)
(* provideBucketPublicUrl is synchronous and may run at any time, also     *)
(* while a request is in flight.  The remote bucket (objects) is the       *)
(* environment: r2.send answers from it or fails.  The multipart           *)
(* collaborator (Upload) and the service's list-objects paging are not     *)
(* part of Bucket.ts; they follow the interfaces of spec.md sections 3, 4.5 *)
(* and 6.  Not modelled: getObjectSignedUrl, getCorsPolicies, getRegion,   *)
(* getEncryption (one request each, no access to bucketPublicUrls).        *)
(*                                                                         *)
(* Strings are sequences of one-character strings; URL strings are         *)
(* sequences of lexical tokens (scheme, "://", host, port, path, query,    *)
(* fragment).  An optional value is <<>> (undefined/null) or <<v>>.        *)
(***************************************************************************)
EXTENDS Integers, Sequences, FiniteSets, TLC

VARIABLES
    bucketPublicUrls,   \* Bucket.bucketPublicUrls (Bucket.ts:30)
    objects,            \* remote bucket content: key -> byte length
    pc,                 \* "idle" | "awaiting" | "returned" | "thrown"
    op,                 \* the asynchronous method in progress, "none" when idle
    arg,                \* its key argument as the caller gave it
    dest,               \* its local normalizedDestination / object key
    size,               \* byte length of the contents being uploaded
    sent,               \* optional: the command handed to r2.send / new Upload
    response,           \* optional: what the transport answered
    ret,                \* optional: the value the method returned
    thrown,             \* optional: the error the method threw
    fileStream,         \* uploadFile's ReadStream: "none" | "open" | "closed"
    events,             \* uploadStream: ordered log of on / done / progress / terminal
    urlsAtCall,         \* history: bucketPublicUrls when the upload method was called
    loop,               \* caller's pagination loop: "off" | "running" | "finished" | "failed"
    enumerated,         \* keys the pagination loop has collected, in order
    cursor,             \* optional: nextContinuationToken of the previous page
    lastDup             \* history: the last provideBucketPublicUrl met a known origin

vars == <<bucketPublicUrls, objects, pc, op, arg, dest, size, sent, response, ret,
          thrown, fileStream, events, urlsAtCall, loop, enumerated, cursor,
          lastDup>>

(***************************************************************************)
(* Bounds of the model.                                                    *)
(***************************************************************************)
MaxListLen == 2     \* longest list given to provideBucketPublicUrl
MaxObjects == 3     \* most objects the remote bucket holds
MaxProgress == 2    \* most httpUploadProgress events of one transfer
MaxKeyLen == 4      \* longest key given to normalizeDestination on its own

None == <<>>
Some(x) == <<x>>

(***************************************************************************)
(* URL strings and new URL(x).origin                                       *)
(***************************************************************************)
Schemes == {"https", "http"}
Ports == {":443", ":80", ":8443"}

\* the port a scheme implies, which the origin's serialization omits
DefaultPort(scheme) == IF scheme = "https" THEN ":443" ELSE ":80"

\* hosts are ASCII-lowercased by the URL parser
LowerHost(h) == IF h = "CDN.X" THEN "cdn.x" ELSE h

\* the URL strings the caller registers; the last has no scheme
UrlInputs ==
    { <<"https", "://", "cdn.x">>,
      <<"https", "://", "cdn.x", "/b", "?q", "#f">>,
      <<"https", "://", "CDN.X", ":443", "/a">>,
      <<"https", "://", "cdn.x", ":8443", "/a">>,
      <<"cdn.x", "/a">> }

\* new URL(u) succeeds: a scheme, "://" and a host
IsUrl(u) == Len(u) >= 3 /\ u[1] \in Schemes /\ u[2] = "://"

\* new URL(u).origin: scheme, host and non-default port; path, query and fragment dropped
Origin(u) ==
    <<u[1], "://", LowerHost(u[3])>> \o
        (IF Len(u) >= 4 /\ u[4] \in Ports /\ u[4] # DefaultPort(u[1])
            THEN <<u[4]>> ELSE <<>>)

\* the elements of the lists the caller registers: two spellings of one origin,
\* another origin, and the string that is no URL
ListUrlInputs ==
    { <<"https", "://", "cdn.x", "/b", "?q", "#f">>,
      <<"https", "://", "CDN.X", ":443", "/a">>,
      <<"https", "://", "cdn.x", ":8443", "/a">>,
      <<"cdn.x", "/a">> }

UrlLists == UNION { [1..n -> ListUrlInputs] : n \in 0..MaxListLen }

Includes(s, x) == \E i \in 1..Len(s) : s[i] = x

IsPrefix(s, t) == Len(s) <= Len(t) /\ \A i \in 1..Len(s) : s[i] = t[i]

(***************************************************************************)
(* Bucket.provideBucketPublicUrl (Bucket.ts:79-90)                         *)
(***************************************************************************)
\* a seeded slip: push without the includes() test
ProvideStringNoCheck(urls, u) == Append(urls, Origin(u))

\* a seeded slip: unshift instead of push
ProvideStringUnshift(urls, u) ==
    IF Includes(urls, Origin(u)) THEN urls ELSE <<Origin(u)>> \o urls

\* the string branch, for a parsable u: push the origin unless it is included
ProvideString(urls, u) ==
    IF Includes(urls, Origin(u)) THEN urls ELSE Append(urls, Origin(u))

\* the array branch: element by element, in order, stopping where new URL throws.
\* Returns the array as it is when the call ends and whether it threw.
RECURSIVE ProvideList(_, _)
ProvideList(urls, list) ==
    IF list = <<>> THEN [urls |-> urls, threw |-> FALSE]
    ELSE IF ~IsUrl(Head(list)) THEN [urls |-> urls, threw |-> TRUE]
    ELSE ProvideList(ProvideString(urls, Head(list)), Tail(list))

\* some element of the list names an origin that is already registered when it is reached
RECURSIVE MeetsKnownOrigin(_, _)
MeetsKnownOrigin(urls, list) ==
    /\ list # <<>>
    /\ IsUrl(Head(list))
    /\ \/ Includes(urls, Origin(Head(list)))
       \/ MeetsKnownOrigin(ProvideString(urls, Head(list)), Tail(list))

\* Bucket.getPublicUrls (Bucket.ts:105-107)
getPublicUrls == bucketPublicUrls

\* Bucket.getPublicUrl (Bucket.ts:98-100)
getPublicUrl == IF Len(bucketPublicUrls) # 0 THEN Some(bucketPublicUrls[1]) ELSE None

(***************************************************************************)
(* Object keys, file paths and the URL generators                          *)
(***************************************************************************)
\* destination strings and object keys the caller passes
Destinations == { <<>>, <<"a">>, <<"/", "a">>, <<"/", "/", "a">> }

\* local file paths given to uploadFile
Files == { <<"/", "a">>, <<"a", "/">>, <<"/">> }

\* byte lengths of the contents the caller uploads: empty and not
Sizes == {0, 1}

\* a seeded slip: replace(/^\//, "") strips one separator only
StripOneSlash(d) == IF d # <<>> /\ Head(d) = "/" THEN Tail(d) ELSE d

\* destination.replace(/^\/+/, "")
RECURSIVE StripLeadingSlashes(_)
StripLeadingSlashes(d) ==
    IF d # <<>> /\ Head(d) = "/" THEN StripLeadingSlashes(Tail(d)) ELSE d

\* Bucket.normalizeDestination (Bucket.ts:481-483)
normalizeDestination(destination) ==
    IF destination # <<>> /\ Head(destination) = "/"
        THEN StripLeadingSlashes(destination)
        ELSE destination

\* node:path basename: trailing separators dropped, then the part after the last one
RECURSIVE DropTrailingSlashes(_)
DropTrailingSlashes(p) ==
    IF p # <<>> /\ p[Len(p)] = "/" THEN DropTrailingSlashes(SubSeq(p, 1, Len(p) - 1)) ELSE p

RECURSIVE AfterLastSlash(_)
AfterLastSlash(p) ==
    IF \E i \in 1..Len(p) : p[i] = "/" THEN AfterLastSlash(Tail(p)) ELSE p

basename(p) == AfterLastSlash(DropTrailingSlashes(p))

\* `${publicUrl}/${objectKey}`
Join(base, objectKey) == base \o <<"/">> \o objectKey

\* Bucket.generateObjectPublicUrl (Bucket.ts:127-131): null without a base
generateObjectPublicUrl(urls, objectKey) ==
    IF Len(urls) = 0 THEN None ELSE Some(Join(urls[1], objectKey))

\* Bucket.generateObjectPublicUrls (Bucket.ts:137-141)
generateObjectPublicUrls(urls, objectKey) ==
    IF Len(urls) = 0 THEN <<>> ELSE [i \in 1..Len(urls) |-> Join(urls[i], objectKey)]

\* a seeded slip: the bases mapped in reverse order
ObjectPublicUrlsReversed(urls, objectKey) ==
    [i \in 1..Len(urls) |-> Join(urls[Len(urls) + 1 - i], objectKey)]

\* Bucket.getObjectPublicUrls (Bucket.ts:147-149)
getObjectPublicUrls(urls, objectKey) ==
    [i \in 1..Len(urls) |-> Join(urls[i], objectKey)]

\* constructor (Bucket.ts:50-55): endpoint origin and uri
EndpointInput == <<"https", "://", "acct.r2", "/x">>
BucketName == <<"b">>
endpoint == Origin(EndpointInput)
uri == Join(endpoint, BucketName)

(***************************************************************************)
(* The transport (r2.send) and the remote bucket it answers from           *)
(***************************************************************************)
Errors ==
    { [name |-> "NoSuchTagSet", message |-> "no tag set"],
      [name |-> "NotFound", message |-> "not found"] }

Ok(out) == [ok |-> TRUE, out |-> Some(out), error |-> None]
Fail(e) == [ok |-> FALSE, out |-> None, error |-> Some(e)]
Failures == { Fail(e) : e \in Errors }

EmptyBucket == [k \in {} |-> 0]

HasRoom(objs, key) == key \in DOMAIN objs \/ Cardinality(DOMAIN objs) < MaxObjects

\* the bucket after key is written with n bytes / after key is removed
Put(objs, key, n) == [k \in DOMAIN objs \cup {key} |-> IF k = key THEN n ELSE objs[k]]
Remove(objs, key) == [k \in DOMAIN objs \ {key} |-> objs[k]]

\* put-object: the service stores any non-empty key; the etag fingerprints the contents
PutObjectOutcomes(cmd, objs) ==
    Failures \cup
    (IF cmd.Key # <<>> /\ HasRoom(objs, cmd.Key)
        THEN { Ok([ETag |-> Some(cmd.Body), VersionId |-> None]) } ELSE {})

\* copy-object: the source must exist
CopyObjectOutcomes(cmd, objs) ==
    Failures \cup
    (IF cmd.CopySource \in DOMAIN objs /\ cmd.Key # <<>> /\ HasRoom(objs, cmd.Key)
        THEN { Ok([ETag |-> Some(objs[cmd.CopySource]), VersionId |-> None]) } ELSE {})

\* head-object: the stored length, which the response may also leave out
HeadObjectOutcomes(cmd, objs) ==
    Failures \cup
    (IF cmd.Key \in DOMAIN objs
        THEN { Ok([ContentLength |-> len, ETag |-> Some(objs[cmd.Key])]) :
                 len \in {None, Some(objs[cmd.Key])} }
        ELSE {})

\* head-bucket and delete-object answer with a status code
HeadBucketOutcomes == Failures \cup { Ok([httpStatusCode |-> Some(200)]) }
DeleteObjectOutcomes == Failures \cup { Ok([httpStatusCode |-> c]) : c \in {None, Some(204)} }

Tag1 == [Key |-> "a", Value |-> "b"]
Tag2 == [Key |-> "c", Value |-> "d"]
TagSets == { <<>>, <<Tag2, Tag1>> }

\* get-*-tagging: a tag set, a response without one, or a failure
TaggingOutcomes ==
    Failures \cup { Ok([TagSet |-> None]) } \cup { Ok([TagSet |-> Some(t)]) : t \in TagSets }

(***************************************************************************)
(* What the methods build from a response                                  *)
(***************************************************************************)
PutObjectCommand(key, n) == [cmd |-> "PutObject", Key |-> key, Body |-> n]

\* the object upload and uploadStream return (Bucket.ts:302-309, 344-351)
UploadFileResponse(urls, normalizedDestination, result) ==
    [ objectKey |-> normalizedDestination,
      uri |-> Join(uri, normalizedDestination),
      publicUrl |-> generateObjectPublicUrl(urls, normalizedDestination),
      publicUrls |-> generateObjectPublicUrls(urls, normalizedDestination),
      etag |-> result.ETag,
      versionId |-> result.VersionId ]

\* a seeded slip: the URLs taken from the set as it was when the method was called
UploadResultAtCall(normalizedDestination, result) ==
    UploadFileResponse(urlsAtCall, normalizedDestination, result)

\* the return statement runs after the await: it reads this.bucketPublicUrls then
UploadResult(normalizedDestination, result) ==
    UploadFileResponse(bucketPublicUrls, normalizedDestination, result)

UploadMethods == {"upload", "uploadFile", "uploadStream"}

CallVarsIdle ==
    /\ pc' = "idle" /\ op' = "none" /\ arg' = <<>> /\ dest' = <<>> /\ size' = 0
    /\ sent' = None /\ response' = None /\ ret' = None /\ thrown' = None
    /\ fileStream' = "none" /\ events' = <<>> /\ urlsAtCall' = <<>>

CanCall == pc = "idle" /\ loop = "off"

\* the code of a method up to its await has run
Called(name, a, d, n, command) ==
    /\ pc' = "awaiting" /\ op' = name /\ arg' = a /\ dest' = d /\ size' = n
    /\ sent' = Some(command) /\ response' = None /\ ret' = None /\ thrown' = None
    /\ urlsAtCall' = IF name \in UploadMethods THEN bucketPublicUrls ELSE <<>>
    /\ UNCHANGED lastDup

Returned(r, value) ==
    /\ pc' = "returned" /\ response' = Some(r) /\ ret' = Some(value) /\ thrown' = None
    /\ UNCHANGED lastDup

Threw(r, error) ==
    /\ pc' = "thrown" /\ response' = Some(r) /\ ret' = None /\ thrown' = Some(error)
    /\ UNCHANGED lastDup

Awaiting(name) == pc = "awaiting" /\ op = name

(***************************************************************************)
(* Init: a new Bucket over an empty remote bucket                          *)
(***************************************************************************)
Init ==
    /\ bucketPublicUrls = <<>>
    /\ objects = EmptyBucket
    /\ pc = "idle" /\ op = "none" /\ arg = <<>> /\ dest = <<>> /\ size = 0
    /\ sent = None /\ response = None /\ ret = None /\ thrown = None
    /\ fileStream = "none" /\ events = <<>> /\ urlsAtCall = <<>>
    /\ loop = "off" /\ enumerated = <<>> /\ cursor = None
    /\ lastDup = FALSE

(***************************************************************************)
(* provideBucketPublicUrl: synchronous, at any time                        *)
(***************************************************************************)
ProvideUrl(u) ==
    /\ bucketPublicUrls' = ProvideList(bucketPublicUrls, <<u>>).urls
    /\ lastDup' = MeetsKnownOrigin(bucketPublicUrls, <<u>>)
    /\ UNCHANGED <<objects, pc, op, arg, dest, size, sent, response, ret, thrown,
                   fileStream, events, urlsAtCall, loop, enumerated, cursor>>

ProvideUrls(list) ==
    /\ bucketPublicUrls' = ProvideList(bucketPublicUrls, list).urls
    /\ lastDup' = MeetsKnownOrigin(bucketPublicUrls, list)
    /\ UNCHANGED <<objects, pc, op, arg, dest, size, sent, response, ret, thrown,
                   fileStream, events, urlsAtCall, loop, enumerated, cursor>>

(***************************************************************************)
(* upload (Bucket.ts:284-310)                                              *)
(***************************************************************************)
UploadCall(destination, n) ==
    /\ CanCall
    /\ Called("upload", destination, normalizeDestination(destination), n,
              PutObjectCommand(normalizeDestination(destination), n))
    /\ UNCHANGED <<bucketPublicUrls, objects, fileStream, events, loop, enumerated, cursor>>

UploadSettle ==
    /\ Awaiting("upload")
    /\ \E r \in PutObjectOutcomes(sent[1], objects) :
        IF r.ok
            THEN /\ Returned(r, UploadResult(dest, r.out[1]))
                 /\ objects' = Put(objects, sent[1].Key, size)
            ELSE /\ Threw(r, r.error[1])
                 /\ UNCHANGED objects
    /\ UNCHANGED <<bucketPublicUrls, op, arg, dest, size, sent, fileStream, events,
                   urlsAtCall, loop, enumerated, cursor>>

(***************************************************************************)
(* uploadFile (Bucket.ts:260-275)                                          *)
(***************************************************************************)
\* destination || basename(file.toString()): an absent or empty destination is falsy
FileDestination(file, destination) ==
    IF destination # None /\ destination[1] # <<>> THEN destination[1] ELSE basename(file)

\* a seeded slip: the stream closed on the success path only
CloseOnSuccessOnly(ok) == IF ok THEN "closed" ELSE "open"

\* fileStream.close() in the try block and in the catch block
StreamAfterUpload(ok) == "closed"

UploadFileCall(file, destination, n) ==
    /\ CanCall
    /\ fileStream' = "open"
    /\ Called("uploadFile", FileDestination(file, destination),
              normalizeDestination(FileDestination(file, destination)), n,
              PutObjectCommand(normalizeDestination(FileDestination(file, destination)), n))
    /\ UNCHANGED <<bucketPublicUrls, objects, events, loop, enumerated, cursor>>

UploadFileSettle ==
    /\ Awaiting("uploadFile")
    /\ \E r \in PutObjectOutcomes(sent[1], objects) :
        /\ fileStream' = StreamAfterUpload(r.ok)
        /\ IF r.ok
            THEN /\ Returned(r, UploadResult(dest, r.out[1]))
                 /\ objects' = Put(objects, sent[1].Key, size)
            ELSE /\ Threw(r, r.error[1])
                 /\ UNCHANGED objects
    /\ UNCHANGED <<bucketPublicUrls, op, arg, dest, size, sent, events,
                   urlsAtCall, loop, enumerated, cursor>>

(***************************************************************************)
(* uploadStream (Bucket.ts:320-352)                                        *)
(***************************************************************************)
\* if (onProgress) upload.on("httpUploadProgress", ...); then upload.done()
RegisterThenDone(withProgress) ==
    (IF withProgress THEN <<"on">> ELSE <<>>) \o <<"done">>

\* a seeded slip: the result carries the destination as given
KeyAsGiven(destination) == destination

\* const normalizedDestination = this.normalizeDestination(destination)
StreamKey(destination) == normalizeDestination(destination)

Count(log, e) == Cardinality({ i \in 1..Len(log) : log[i] = e })

UploadStreamCall(destination, n, withProgress) ==
    /\ CanCall
    /\ events' = RegisterThenDone(withProgress)
    /\ Called("uploadStream", destination, StreamKey(destination), n,
              [cmd |-> "Upload", Key |-> normalizeDestination(destination), Body |-> n])
    /\ UNCHANGED <<bucketPublicUrls, objects, fileStream, loop, enumerated, cursor>>

\* the multipart collaborator reports progress while the transfer runs;
\* the registered listener forwards it to onProgress
UploadProgress ==
    /\ Awaiting("uploadStream")
    /\ Includes(events, "on")
    /\ Count(events, "progress") < MaxProgress
    /\ events' = Append(events, "progress")
    /\ UNCHANGED lastDup
    /\ UNCHANGED <<bucketPublicUrls, objects, pc, op, arg, dest, size, sent, response,
                   ret, thrown, fileStream, urlsAtCall, loop, enumerated, cursor>>

UploadStreamSettle ==
    /\ Awaiting("uploadStream")
    /\ \E r \in PutObjectOutcomes(sent[1], objects) :
        IF r.ok
            THEN /\ Returned(r, UploadResult(dest, r.out[1]))
                 /\ events' = Append(events, "resolved")
                 /\ objects' = Put(objects, sent[1].Key, size)
            ELSE /\ Threw(r, r.error[1])
                 /\ events' = Append(events, "rejected")
                 /\ UNCHANGED objects
    /\ UNCHANGED <<bucketPublicUrls, op, arg, dest, size, sent, fileStream,
                   urlsAtCall, loop, enumerated, cursor>>

(***************************************************************************)
(* copyObject (Bucket.ts:448-458): the keys go out as given                *)
(***************************************************************************)
CopyObjectCommand(sourceObjectKey, destinationObjectKey) ==
    [cmd |-> "CopyObject", CopySource |-> sourceObjectKey, Key |-> destinationObjectKey]

CopyObjectCall(sourceObjectKey, destinationObjectKey) ==
    /\ CanCall
    /\ Called("copyObject", destinationObjectKey, destinationObjectKey, 0,
              CopyObjectCommand(sourceObjectKey, destinationObjectKey))
    /\ UNCHANGED <<bucketPublicUrls, objects, fileStream, events, loop, enumerated, cursor>>

CopyObjectSettle ==
    /\ Awaiting("copyObject")
    /\ \E r \in CopyObjectOutcomes(sent[1], objects) :
        IF r.ok
            THEN /\ Returned(r, r.out[1])
                 /\ objects' = Put(objects, sent[1].Key, objects[sent[1].CopySource])
            ELSE /\ Threw(r, r.error[1])
                 /\ UNCHANGED objects
    /\ UNCHANGED <<bucketPublicUrls, op, arg, dest, size, sent, fileStream, events,
                   urlsAtCall, loop, enumerated, cursor>>

(***************************************************************************)
(* headObject (Bucket.ts:386-402) and objectExists (Bucket.ts:464-472)     *)
(***************************************************************************)
HeadObjectResponse(result) ==
    [contentLength |-> result.ContentLength, etag |-> result.ETag]

\* a seeded slip: any successful head counts as existence
HeadSucceeded(r) == r.ok

\* try { return !!(await this.headObject(key)).contentLength } catch { return false }
ObjectExistsResult(r) ==
    IF r.ok
        THEN LET contentLength == HeadObjectResponse(r.out[1]).contentLength
             IN  contentLength # None /\ contentLength[1] # 0
        ELSE FALSE

HeadObjectCall(objectKey) ==
    /\ CanCall
    /\ Called("headObject", objectKey, objectKey, 0, [cmd |-> "HeadObject", Key |-> objectKey])
    /\ UNCHANGED <<bucketPublicUrls, objects, fileStream, events, loop, enumerated, cursor>>

HeadObjectSettle ==
    /\ Awaiting("headObject")
    /\ \E r \in HeadObjectOutcomes(sent[1], objects) :
        IF r.ok THEN Returned(r, HeadObjectResponse(r.out[1])) ELSE Threw(r, r.error[1])
    /\ UNCHANGED <<bucketPublicUrls, objects, op, arg, dest, size, sent, fileStream, events,
                   urlsAtCall, loop, enumerated, cursor>>

ObjectExistsCall(objectkey) ==
    /\ CanCall
    /\ Called("objectExists", objectkey, objectkey, 0, [cmd |-> "HeadObject", Key |-> objectkey])
    /\ UNCHANGED <<bucketPublicUrls, objects, fileStream, events, loop, enumerated, cursor>>

ObjectExistsSettle ==
    /\ Awaiting("objectExists")
    /\ \E r \in HeadObjectOutcomes(sent[1], objects) : Returned(r, ObjectExistsResult(r))
    /\ UNCHANGED <<bucketPublicUrls, objects, op, arg, dest, size, sent, fileStream, events,
                   urlsAtCall, loop, enumerated, cursor>>

(***************************************************************************)
(* exists (Bucket.ts:155-167) and deleteObject (Bucket.ts:369-380)         *)
(***************************************************************************)
ExistsCall ==
    /\ CanCall
    /\ Called("exists", <<>>, <<>>, 0, [cmd |-> "HeadBucket"])
    /\ UNCHANGED <<bucketPublicUrls, objects, fileStream, events, loop, enumerated, cursor>>

ExistsSettle ==
    /\ Awaiting("exists")
    /\ \E r \in HeadBucketOutcomes :
        Returned(r, r.ok /\ r.out[1].httpStatusCode = Some(200))
    /\ UNCHANGED <<bucketPublicUrls, objects, op, arg, dest, size, sent, fileStream, events,
                   urlsAtCall, loop, enumerated, cursor>>

\* httpStatusCode && httpStatusCode >= 200 && httpStatusCode < 300, as a truth value
DeleteObjectResult(result) ==
    /\ result.httpStatusCode # None
    /\ result.httpStatusCode[1] >= 200
    /\ result.httpStatusCode[1] < 300

DeleteObjectCall(objectKey) ==
    /\ CanCall
    /\ Called("deleteObject", objectKey, objectKey, 0, [cmd |-> "DeleteObject", Key |-> objectKey])
    /\ UNCHANGED <<bucketPublicUrls, objects, fileStream, events, loop, enumerated, cursor>>

DeleteObjectSettle ==
    /\ Awaiting("deleteObject")
    /\ \E r \in DeleteObjectOutcomes :
        IF r.ok
            THEN /\ Returned(r, DeleteObjectResult(r.out[1]))
                 /\ objects' = Remove(objects, sent[1].Key)
            ELSE /\ Threw(r, r.error[1])
                 /\ UNCHANGED objects
    /\ UNCHANGED <<bucketPublicUrls, op, arg, dest, size, sent, fileStream, events,
                   urlsAtCall, loop, enumerated, cursor>>

(***************************************************************************)
(* getBucketTags (Bucket.ts:502-516) and getObjectTags (Bucket.ts:549-564) *)
(***************************************************************************)
\* a seeded slip: every failure swallowed to the empty sequence
TagsSwallowAll(r) ==
    IF r.ok
        THEN [threw |-> FALSE, value |-> IF r.out[1].TagSet # None THEN r.out[1].TagSet[1] ELSE <<>>]
        ELSE [threw |-> FALSE, value |-> <<>>]

\* return result.TagSet || []; catch: [] for NoSuchTagSet, else rethrow
TagsResult(r) ==
    IF r.ok
        THEN [threw |-> FALSE, value |-> IF r.out[1].TagSet # None THEN r.out[1].TagSet[1] ELSE <<>>]
        ELSE IF r.error[1].name = "NoSuchTagSet"
            THEN [threw |-> FALSE, value |-> <<>>]
            ELSE [threw |-> TRUE, value |-> r.error[1]]

GetBucketTagsCall ==
    /\ CanCall
    /\ Called("getBucketTags", <<>>, <<>>, 0, [cmd |-> "GetBucketTagging"])
    /\ UNCHANGED <<bucketPublicUrls, objects, fileStream, events, loop, enumerated, cursor>>

GetObjectTagsCall(objectKey) ==
    /\ CanCall
    /\ Called("getObjectTags", objectKey, objectKey, 0,
              [cmd |-> "GetObjectTagging", Key |-> objectKey])
    /\ UNCHANGED <<bucketPublicUrls, objects, fileStream, events, loop, enumerated, cursor>>

GetTagsSettle ==
    /\ pc = "awaiting" /\ op \in {"getBucketTags", "getObjectTags"}
    /\ \E r \in TaggingOutcomes :
        IF TagsResult(r).threw
            THEN Threw(r, TagsResult(r).value)
            ELSE Returned(r, TagsResult(r).value)
    /\ UNCHANGED <<bucketPublicUrls, objects, op, arg, dest, size, sent, fileStream, events,
                   urlsAtCall, loop, enumerated, cursor>>

(***************************************************************************)
(* setBucketTags, deleteBucketTags, setObjectTags, deleteObjectTags        *)
(* (Bucket.ts:489-496, 521-527, 534-542, 570-577): one request, no result  *)
(***************************************************************************)
TagWriteMethods == {"setBucketTags", "deleteBucketTags", "setObjectTags", "deleteObjectTags"}

TagWriteOutcomes == Failures \cup { Ok([httpStatusCode |-> Some(204)]) }

TagWriteCall(name) ==
    /\ CanCall
    /\ Called(name, <<>>, <<>>, 0, [cmd |-> name])
    /\ UNCHANGED <<bucketPublicUrls, objects, fileStream, events, loop, enumerated, cursor>>

TagWriteSettle ==
    /\ pc = "awaiting" /\ op \in TagWriteMethods
    /\ \E r \in TagWriteOutcomes :
        IF r.ok THEN Returned(r, None) ELSE Threw(r, r.error[1])
    /\ UNCHANGED <<bucketPublicUrls, objects, op, arg, dest, size, sent, fileStream, events,
                   urlsAtCall, loop, enumerated, cursor>>

(***************************************************************************)
(* getObjectPublicUrls (Bucket.ts:147-149): synchronous                    *)
(***************************************************************************)
GetObjectPublicUrlsCall(objectKey) ==
    /\ CanCall
    /\ pc' = "returned" /\ op' = "getObjectPublicUrls"
    /\ arg' = objectKey /\ dest' = objectKey /\ size' = 0
    /\ sent' = None /\ response' = None /\ thrown' = None
    /\ ret' = Some(getObjectPublicUrls(bucketPublicUrls, objectKey))
    /\ urlsAtCall' = bucketPublicUrls
    /\ UNCHANGED <<bucketPublicUrls, objects, fileStream, events, loop, enumerated, cursor,
                   lastDup>>

(***************************************************************************)
(* listObjects (Bucket.ts:409-441) and the caller's pagination loop        *)
(***************************************************************************)
DefaultMaxResults == 1000
MaxResultsInputs == {1, 2, DefaultMaxResults}

CharCode(c) == IF c = "/" THEN 47 ELSE 97

\* a < b in the service's (byte-wise lexicographic) key order
RECURSIVE KeyLess(_, _)
KeyLess(a, b) ==
    IF b = <<>> THEN FALSE
    ELSE IF a = <<>> THEN TRUE
    ELSE IF Head(a) # Head(b) THEN CharCode(Head(a)) < CharCode(Head(b))
    ELSE KeyLess(Tail(a), Tail(b))

RECURSIVE SortedKeys(_)
SortedKeys(S) ==
    IF S = {} THEN <<>>
    ELSE LET least == CHOOSE k \in S : \A j \in S \ {k} : KeyLess(k, j)
         IN  <<least>> \o SortedKeys(S \ {least})

FirstN(s, n) == SubSeq(s, 1, IF n < Len(s) THEN n ELSE Len(s))

\* list-objects: one page of at most MaxKeys keys after Marker, in key order;
\* NextMarker is the last key of a truncated page and absent when the listing is exhausted
ListObjectsOutcomes(cmd, objs) ==
    LET after == { k \in DOMAIN objs : cmd.Marker = None \/ KeyLess(cmd.Marker[1], k) }
        all == SortedKeys(after)
        page == FirstN(all, cmd.MaxKeys)
    IN  Failures \cup
        { Ok([ Contents |-> IF page = <<>> THEN None
                            ELSE Some([i \in 1..Len(page) |->
                                        [Key |-> page[i], Size |-> objs[page[i]]]]),
               Marker |-> cmd.Marker,
               NextMarker |-> IF Len(page) < Len(all) THEN Some(page[Len(page)]) ELSE None ]) }

ListObjectsCommand(maxResults, marker) ==
    [cmd |-> "ListObjects", MaxKeys |-> maxResults, Marker |-> marker]

\* result.Contents?.map(...) || []
ListedObjects(result) ==
    IF result.Contents # None
        THEN [i \in 1..Len(result.Contents[1]) |->
                [key |-> result.Contents[1][i].Key, size |-> result.Contents[1][i].Size]]
        ELSE <<>>

\* a seeded slip: the two markers of the response swapped
ObjectListResponseSwapped(result) ==
    [ objects |-> ListedObjects(result),
      continuationToken |-> result.NextMarker,
      nextContinuationToken |-> result.Marker ]

\* the object listObjects returns (Bucket.ts:418-440)
ObjectListResponse(result) ==
    [ objects |-> ListedObjects(result),
      continuationToken |-> result.Marker,
      nextContinuationToken |-> result.NextMarker ]

Markers == {None} \cup { Some(k) : k \in Destinations }

ListObjectsCall(maxResults, marker) ==
    /\ CanCall
    /\ Called("listObjects", <<>>, <<>>, 0, ListObjectsCommand(maxResults, marker))
    /\ UNCHANGED <<bucketPublicUrls, objects, fileStream, events, loop, enumerated, cursor>>

\* the caller's loop: listObjects(1, previous.nextContinuationToken), first without a marker
PaginateCall ==
    /\ pc = "idle" /\ loop \in {"off", "running"}
    /\ Len(enumerated) <= MaxObjects
    /\ Called("listObjects", <<>>, <<>>, 0,
              ListObjectsCommand(1, IF loop = "off" THEN None ELSE cursor))
    /\ loop' = "running"
    /\ UNCHANGED <<bucketPublicUrls, objects, fileStream, events, enumerated, cursor>>

KeysOf(listed) == [i \in 1..Len(listed) |-> listed[i].key]

ListObjectsSettle ==
    /\ Awaiting("listObjects")
    /\ \E r \in ListObjectsOutcomes(sent[1], objects) :
        IF r.ok
            THEN /\ Returned(r, ObjectListResponse(r.out[1]))
                 /\ IF loop = "running"
                        THEN /\ enumerated' = enumerated \o KeysOf(ObjectListResponse(r.out[1]).objects)
                             /\ cursor' = ObjectListResponse(r.out[1]).nextContinuationToken
                             /\ loop' = IF ObjectListResponse(r.out[1]).nextContinuationToken = None
                                            THEN "finished" ELSE "running"
                        ELSE UNCHANGED <<loop, enumerated, cursor>>
            ELSE /\ Threw(r, r.error[1])
                 /\ loop' = IF loop = "running" THEN "failed" ELSE loop
                 /\ UNCHANGED <<enumerated, cursor>>
    /\ UNCHANGED <<bucketPublicUrls, objects, op, arg, dest, size, sent, fileStream, events,
                   urlsAtCall>>

(***************************************************************************)
(* The caller takes the outcome of the method                              *)
(***************************************************************************)
Ack ==
    /\ pc \in {"returned", "thrown"}
    /\ CallVarsIdle
    /\ IF loop = "running"
        THEN UNCHANGED <<loop, enumerated, cursor>>
        ELSE loop' = "off" /\ enumerated' = <<>> /\ cursor' = None
    /\ UNCHANGED <<bucketPublicUrls, objects, lastDup>>

Next ==
    \/ \E u \in UrlInputs : ProvideUrl(u)
    \/ \E list \in UrlLists : ProvideUrls(list)
    \/ \E d \in Destinations, n \in Sizes : UploadCall(d, n)
    \/ UploadSettle
    \/ \E f \in Files, d \in Markers, n \in Sizes : UploadFileCall(f, d, n)
    \/ UploadFileSettle
    \/ \E d \in Destinations, n \in Sizes, p \in BOOLEAN : UploadStreamCall(d, n, p)
    \/ UploadProgress
    \/ UploadStreamSettle
    \/ \E s \in Destinations, d \in Destinations : CopyObjectCall(s, d)
    \/ CopyObjectSettle
    \/ \E k \in Destinations : HeadObjectCall(k)
    \/ HeadObjectSettle
    \/ \E k \in Destinations : ObjectExistsCall(k)
    \/ ObjectExistsSettle
    \/ ExistsCall
    \/ ExistsSettle
    \/ \E k \in Destinations : DeleteObjectCall(k)
    \/ DeleteObjectSettle
    \/ GetBucketTagsCall
    \/ \E k \in Destinations : GetObjectTagsCall(k)
    \/ GetTagsSettle
    \/ \E name \in TagWriteMethods : TagWriteCall(name)
    \/ TagWriteSettle
    \/ \E k \in Destinations : GetObjectPublicUrlsCall(k)
    \/ \E m \in MaxResultsInputs, k \in Markers : ListObjectsCall(m, k)
    \/ PaginateCall
    \/ ListObjectsSettle
    \/ Ack

Spec == Init /\ [][Next]_vars

\* the transport settles every request it was sent, so the code after
\* uploadFile's await runs
FairSpec == Spec /\ WF_vars(UploadFileSettle)

(***************************************************************************)
(* Properties                                                              *)
(***************************************************************************)
Settled == pc \in {"returned", "thrown"}

\* C1: whatever provideBucketPublicUrl calls were made (single or list form,
\* repeated URLs, URLs differing in path, query, fragment, default port or host
\* case), getPublicUrls holds no two equal origins.
NoDuplicateOrigins ==
    \A i, j \in 1..Len(getPublicUrls) : i # j => getPublicUrls[i] # getPublicUrls[j]

\* both origins are registered and the last call named one that was already there
DuplicateOriginOffered == lastDup /\ Len(getPublicUrls) = 2

ProvideStep ==
    \/ \E u \in UrlInputs : ProvideUrl(u)
    \/ \E list \in UrlLists : ProvideUrls(list)

\* C2: in every step the public-URL sequence before is a prefix of the sequence
\* after, and a step that changes it is a provideBucketPublicUrl call.
PublicUrlsAppendOnly ==
    [][ /\ IsPrefix(bucketPublicUrls, bucketPublicUrls')
        /\ (bucketPublicUrls' # bucketPublicUrls => ProvideStep) ]_vars

\* an upload has returned on a bucket with both origins registered
UploadReturnedWithUrls ==
    pc = "returned" /\ op = "upload" /\ Len(bucketPublicUrls) = 2

KeyCommands == {"PutObject", "Upload", "CopyObject"}

\* C3: the key of every request that carries a destination key (upload,
\* uploadFile, uploadStream, copyObject) has no leading "/".
DestinationKeySentNormalized ==
    (sent # None /\ sent[1].cmd \in KeyCommands) =>
        (sent[1].Key = <<>> \/ Head(sent[1].Key) # "/")

\* C4 as stated: the URLs of a returned UploadResult are those of the set as it
\* was when the upload method was called.
UploadUrlsFromCallTime ==
    (pc = "returned" /\ op \in UploadMethods) =>
        /\ ret[1].publicUrls = generateObjectPublicUrls(urlsAtCall, dest)
        /\ ret[1].publicUrl = generateObjectPublicUrl(urlsAtCall, dest)

\* C4 amended: the URLs of the UploadResult are those of the set as it is when
\* the request or transfer completes and the method returns.
UploadUrlsFromCompletionTime ==
    [][ (pc = "awaiting" /\ op \in UploadMethods /\ pc' = "returned") =>
            /\ ret'[1].publicUrls = generateObjectPublicUrls(bucketPublicUrls', dest')
            /\ ret'[1].publicUrl = generateObjectPublicUrl(bucketPublicUrls', dest') ]_vars

\* an upload returned URLs of an origin registered while its request was in flight
UploadSawLateRegistration ==
    /\ pc = "returned" /\ op \in UploadMethods
    /\ Len(urlsAtCall) < Len(ret[1].publicUrls)
    /\ ret[1].publicUrls = generateObjectPublicUrls(bucketPublicUrls, dest)

Before(log, a, b) ==
    \A i, j \in 1..Len(log) : (log[i] = a /\ log[j] = b) => i < j

\* C5: in a run of uploadStream the listener is attached before done() is
\* called, every onProgress invocation precedes the terminal outcome, and there
\* is exactly one terminal outcome: an UploadResult whose objectKey is the
\* normalized destination, or the transfer's failure with no result.
UploadStreamOneOutcome ==
    op = "uploadStream" =>
        /\ Before(events, "on", "done")
        /\ Before(events, "progress", "resolved")
        /\ Before(events, "progress", "rejected")
        /\ Count(events, "done") = 1
        /\ Count(events, "resolved") + Count(events, "rejected") = (IF Settled THEN 1 ELSE 0)
        /\ pc = "returned" =>
            /\ events[Len(events)] = "resolved"
            /\ thrown = None
            /\ ret[1].objectKey = normalizeDestination(arg)
        /\ pc = "thrown" =>
            /\ events[Len(events)] = "rejected"
            /\ ret = None
            /\ thrown = response[1].error

\* a transfer to a destination with leading separators resolved after MaxProgress reports
StreamResolvedAfterProgress ==
    /\ op = "uploadStream" /\ pc = "returned"
    /\ Count(events, "progress") = MaxProgress
    /\ arg # <<>> /\ Head(arg) = "/"

FileStreamScoped ==
    /\ (op = "uploadFile" /\ Settled) => fileStream = "closed"
    /\ fileStream = "open" <=> (op = "uploadFile" /\ pc = "awaiting")

\* C6: uploadFile never returns or throws with its file stream open, the stream
\* is open only while the delegated upload is awaited, and an opened stream is
\* eventually closed.
FileStreamClosedOnExit ==
    /\ []FileStreamScoped
    /\ (fileStream = "open") ~> (fileStream = "closed")

\* the delegated upload failed and uploadFile rethrew with the stream closed
UploadFileRethrewClosed ==
    op = "uploadFile" /\ pc = "thrown" /\ fileStream = "closed" /\ thrown = response[1].error

Range(q) == { q[i] : i \in 1..Len(q) }

\* C7: the loop listObjects(1, previous nextContinuationToken), started without
\* a marker and ended when the next marker is absent, collects no key twice and,
\* when it ends, has collected every object of the bucket.
PaginationEnumeratesOnce ==
    /\ loop \in {"running", "finished"} =>
        /\ \A i, j \in 1..Len(enumerated) : i # j => enumerated[i] # enumerated[j]
        /\ Range(enumerated) \subseteq DOMAIN objects
    /\ loop = "finished" => Range(enumerated) = DOMAIN objects

\* the loop ended after enumerating a bucket of three objects, one per page
PaginationFinishedThreePages == loop = "finished" /\ Len(enumerated) = 3

\* C8: objectExists never throws; it returns true exactly when the head-object
\* request succeeded and reported a content length other than zero.
ObjectExistsIffNonEmptyHead ==
    (op = "objectExists" /\ Settled) =>
        /\ pc = "returned" /\ thrown = None
        /\ ret[1] = ( /\ response[1].ok
                      /\ response[1].out[1].ContentLength # None
                      /\ response[1].out[1].ContentLength # Some(0) )

\* the head of a stored zero-length object succeeded and objectExists returned false
ZeroLengthObjectReportedAbsent ==
    /\ op = "objectExists" /\ pc = "returned"
    /\ arg \in DOMAIN objects /\ objects[arg] = 0
    /\ response[1].ok /\ response[1].out[1].ContentLength = Some(0)
    /\ ret[1] = FALSE

\* C9: getBucketTags and getObjectTags return the remote tag set unchanged, the
\* empty sequence when the response has no tag set or the failure is named
\* NoSuchTagSet, and throw every other failure as the transport raised it.
TagsReadOutcome ==
    (op \in {"getBucketTags", "getObjectTags"} /\ Settled) =>
        IF response[1].ok
            THEN /\ pc = "returned"
                 /\ ret[1] = (IF response[1].out[1].TagSet = None
                                THEN <<>> ELSE response[1].out[1].TagSet[1])
            ELSE IF response[1].error[1].name = "NoSuchTagSet"
                THEN pc = "returned" /\ ret[1] = <<>>
                ELSE pc = "thrown" /\ ret = None /\ thrown = response[1].error

\* getObjectTags threw the transport's NotFound failure
TagsReadPropagated ==
    op = "getObjectTags" /\ pc = "thrown" /\ thrown[1].name = "NotFound"

\* C10: getObjectPublicUrls(k) returns a sequence with one entry per registered
\* base, in registration order, each base + "/" + k with k as given; the empty
\* sequence when no base is registered.
ObjectPublicUrlsPerBase ==
    (op = "getObjectPublicUrls" /\ pc = "returned") =>
        /\ Len(ret[1]) = Len(urlsAtCall)
        /\ urlsAtCall = <<>> => ret[1] = <<>>
        /\ \A i \in 1..Len(urlsAtCall) : ret[1][i] = urlsAtCall[i] \o <<"/">> \o arg

\* two bases are registered and the key has a leading separator, kept in the URLs
ObjectPublicUrlsTwoBases ==
    /\ op = "getObjectPublicUrls" /\ pc = "returned"
    /\ Len(ret[1]) = 2 /\ ret[1][1] # ret[1][2]
    /\ arg # <<>> /\ Head(arg) = "/"

(***************************************************************************)
(* normalizeDestination (Bucket.ts:481-483) on its own: every key of at    *)
(* most MaxKeyLen characters, normalized once and then once more           *)
(***************************************************************************)
KeyChars == {"/", "a", "b"}
Keys == UNION { [1..n -> KeyChars] : n \in 0..MaxKeyLen }

NormInit ==
    /\ arg \in Keys
    /\ bucketPublicUrls = <<>>
    /\ objects = EmptyBucket
    /\ pc = "idle" /\ op = "none" /\ dest = <<>> /\ size = 0
    /\ sent = None /\ response = None /\ ret = None /\ thrown = None
    /\ fileStream = "none" /\ events = <<>> /\ urlsAtCall = <<>>
    /\ loop = "off" /\ enumerated = <<>> /\ cursor = None
    /\ lastDup = FALSE

\* dest := normalizeDestination(arg)
NormalizeOnce ==
    /\ pc = "idle" /\ op = "none"
    /\ op' = "normalizeDestination" /\ pc' = "returned"
    /\ dest' = normalizeDestination(arg)
    /\ UNCHANGED <<bucketPublicUrls, objects, arg, size, sent, response, ret, thrown,
                   fileStream, events, urlsAtCall, loop, enumerated, cursor, lastDup>>

\* ret := normalizeDestination(dest)
NormalizeAgain ==
    /\ op = "normalizeDestination" /\ pc = "returned" /\ ret = None
    /\ ret' = Some(normalizeDestination(dest))
    /\ UNCHANGED <<bucketPublicUrls, objects, pc, op, arg, dest, size, sent, response,
                   thrown, fileStream, events, urlsAtCall, loop, enumerated, cursor, lastDup>>

NormNext == NormalizeOnce \/ NormalizeAgain

NormSpec == NormInit /\ [][NormNext]_vars

\* C11: normalizeDestination removes every leading "/" of its input and nothing
\* else (the result is the input without a prefix made of "/" only, inner and
\* trailing separators kept), and normalizing the result again changes nothing.
NormalizeStripsLeadingOnly ==
    (op = "normalizeDestination" /\ pc = "returned") =>
        /\ dest = <<>> \/ Head(dest) # "/"
        /\ \E n \in 0..Len(arg) :
            /\ \A i \in 1..n : arg[i] = "/"
            /\ dest = SubSeq(arg, n + 1, Len(arg))
        /\ ret # None => ret[1] = dest

\* a key with two leading separators and a trailing one was normalized twice
NormalizedTwiceKeepsTrailing ==
    /\ op = "normalizeDestination" /\ ret # None
    /\ Len(arg) = Len(dest) + 2
    /\ Len(dest) = 2 /\ dest[2] = "/"

====
